---- MODULE Spec2Model ----
(***************************************************************************)
(* Model of the collection engine of app/services/collection/engine.py:    *)
(* CollectionEngine.collect, _collect_single_site, _get_target_sites,      *)
(* SiteFactory.create_site and AsyncRateLimiter.acquire, together with the *)
(* adapter contract of sites/base.py (collect, get_session, cleanup).      *)
(* One engine instance serves several collect() calls; every await of the  *)
(* code is a point where another coroutine of the event loop may run.      *)
(***************************************************************************)
EXTENDS Integers, Sequences, FiniteSets, TLC

\* ---------------------------------------------------------------- bounds
\* number of collect() calls made on the one engine instance
MaxCollects == 2
\* rate_limit configured for weibo
RateLimitWeibo == 2
\* rate_limit configured for the other sources
RateLimitOther == 1
\* largest number of records one fetch returns
MaxRecords == 1

Calls == 1..MaxCollects

\* ------------------------------------------------------- configuration
\* sites.yaml as _load_sites_config returns it (a dict, in file order)
ConfigOrder == <<"weibo", "baidu", "toutiao", "cctv">>

sites_config ==
    [weibo   |-> [enabled |-> TRUE,  rate_limit |-> RateLimitWeibo],
     baidu   |-> [enabled |-> TRUE,  rate_limit |-> RateLimitOther],
     toutiao |-> [enabled |-> TRUE,  rate_limit |-> RateLimitOther],
     cctv    |-> [enabled |-> FALSE, rate_limit |-> RateLimitOther]]

ConfiguredSites == DOMAIN sites_config

\* the adapter modules present in the sites directory
SiteFiles == {"weibo", "baidu", "cctv"}

\* a site code as it is written in a request: Padded marks surrounding blanks
Tok(code, padded) == [code |-> code, padded |-> padded]
Code(code) == Tok(code, FALSE)

\* str.strip()
Strip(t) == [t EXCEPT !.padded = FALSE]

\* params["site_code"]: None, a comma separated string (given as its
\* pieces after split(",")), a list, or a value of another type
Requests ==
    { [kind |-> "none",  items |-> << >>],
      [kind |-> "str",   items |-> <<Code("weibo"), Tok("nosuch", TRUE)>>],
      [kind |-> "str",   items |-> <<Code("toutiao"), Tok("baidu", TRUE)>>],
      [kind |-> "list",  items |-> <<Code("cctv"), Code("baidu"), Tok("weibo", TRUE)>>],
      [kind |-> "list",  items |-> <<Code("weibo"), Code("weibo")>>],
      [kind |-> "other", items |-> <<Tok("404", TRUE)>>] }

NoRequest == [kind |-> "unset", items |-> << >>]

\* ------------------------------------------------------------- state
VARIABLES
    semaphore,     \* rate_limiters[site].semaphore: free permits
    pc,            \* position of each collect() call
    params,        \* params["site_code"] of each call
    target_sites,  \* target_sites of each call
    tasks,         \* the per-site jobs of each call, in tasks order
    results,       \* the list a call returned
    raised,        \* TRUE when an exception left collect()
    clock,         \* event loop time, in limiter sleeps
    flow,          \* one job's records on their way from site.collect to the caller
    base_site,     \* the _session of each BaseSite instance and its history
    selection,     \* the SelectionEngine and its analyze_hotspots calls
    feishu,        \* the FeishuService, the table it syncs and its ensure_table_fields calls
    limiter        \* the RateLimitMiddleware instances and the requests they saw

\* the state of the collection engine
cvars == <<semaphore, pc, params, target_sites, tasks, results, raised, clock>>

vars == <<cvars, flow, base_site, selection, feishu, limiter>>

\* ---------------------------------------------- _get_target_sites
all_sites == SelectSeq(ConfigOrder, LAMBDA s : sites_config[s].enabled)

SeqToSet(q) == {q[n] : n \in 1..Len(q)}

InAllSites(t) == t.padded = FALSE /\ t.code \in SeqToSet(all_sites)

StripAll(q) == [n \in 1..Len(q) |-> Strip(q[n])]

Codes(q) == [n \in 1..Len(q) |-> q[n].code]

\* mutation: the requested codes are not checked against all_sites
get_target_sites_unfiltered(site_code_input) ==
    IF site_code_input.kind = "none" \/ site_code_input.items = << >>
    THEN all_sites
    ELSE Codes(IF site_code_input.kind = "list"
               THEN site_code_input.items
               ELSE StripAll(site_code_input.items))

get_target_sites(site_code_input) ==
    IF site_code_input.kind = "none" \/ site_code_input.items = << >>
    THEN all_sites
    ELSE LET target == IF site_code_input.kind = "list"
                       THEN site_code_input.items
                       ELSE StripAll(site_code_input.items)
         IN  Codes(SelectSeq(target, InAllSites))

\* ---------------------------------------------- _init_rate_limiters
LimitedSites == {s \in ConfiguredSites : sites_config[s].enabled}

max_calls(s) == sites_config[s].rate_limit

\* ---------------------------------------------- SiteFactory
loaded_sites == SiteFiles

\* mutation: a site object is built although no class was loaded
create_site_always(site_code) == "instance"

create_site(site_code) == IF site_code \in loaded_sites THEN "instance" ELSE "None"

\* ---------------------------------------------- job records
NewTask(site_code, slot) ==
    [site_code |-> site_code,
     slot      |-> slot,        \* acquire() returned for this job
     pc        |-> "created",   \* created, fetching, hung, cleanup, done
     site      |-> "None",      \* the adapter instance, once constructed
     session   |-> "none",      \* none, open, closed
     fetch     |-> "no",        \* site.collect: no, running, returned, raised
     cleanups  |-> 0,           \* calls of site.cleanup
     raises    |-> {},          \* where the job saw an exception
     result    |-> [kind |-> "pending"]]

ResultNone == [kind |-> "None"]
ResultException == [kind |-> "exception"]

Records(site_code, n) == [k \in 1..n |-> [site_code |-> site_code, rank |-> k]]

\* the dict _collect_single_site returns
SiteResult(site_code, processed_data, now) ==
    [kind         |-> "dict",
     site_code    |-> site_code,
     collect_time |-> now,
     data_count   |-> Len(processed_data),
     news         |-> processed_data]

\* no job's records are followed
FlowIdle == [pc |-> "idle", data |-> << >>, result |-> [kind |-> "pending"], results |-> << >>]

\* no BaseSite instance exists
NoSites == << >>

\* no SelectionEngine exists
NoSelection == [pc |-> "none"]

\* no FeishuService exists
NoFeishu == [pc |-> "none"]

\* no RateLimitMiddleware is installed
NoLimiter == [pc |-> "none"]

CollectionInit ==
    /\ semaphore = [s \in LimitedSites |-> max_calls(s)]
    /\ pc = [c \in Calls |-> "idle"]
    /\ params = [c \in Calls |-> NoRequest]
    /\ target_sites = [c \in Calls |-> << >>]
    /\ tasks = [c \in Calls |-> << >>]
    /\ results = [c \in Calls |-> << >>]
    /\ raised = [c \in Calls |-> FALSE]
    /\ clock = 0

\* the engine is constructed; nothing else runs
Init ==
    /\ CollectionInit
    /\ flow = FlowIdle
    /\ base_site = NoSites
    /\ selection = NoSelection
    /\ feishu = NoFeishu
    /\ limiter = NoLimiter

\* ---------------------------------------------- collect(): the loop
\* position after the loop body for one site has run
AfterSite(c, appended) ==
    IF Len(appended) = Len(target_sites[c]) THEN "gather" ELSE "acquire"

\* collect() is called: lines 66-69
CollectCall(c, req) ==
    /\ pc[c] = "idle"
    /\ \A d \in Calls : d < c => pc[d] # "idle"
    /\ params' = [params EXCEPT ![c] = req]
    /\ target_sites' = [target_sites EXCEPT ![c] = get_target_sites(req)]
    /\ pc' = [pc EXCEPT ![c] = IF get_target_sites(req) = << >> THEN "gather" ELSE "acquire"]
    /\ UNCHANGED <<semaphore, tasks, results, raised, clock,
                 flow, base_site, selection, feishu, limiter>>

\* mutation: the semaphore is not awaited
CanAcquireAlways(s) == TRUE

\* a permit is free: Semaphore.acquire returns
CanAcquire(s) == semaphore[s] > 0

\* lines 75-81 and 276: the limiter of the next site is looked up and its
\* semaphore taken; without a limiter the task is appended at once
LimiterAcquire(c) ==
    /\ pc[c] = "acquire"
    /\ LET s == target_sites[c][Len(tasks[c]) + 1]
       IN  IF s \in DOMAIN semaphore
           THEN /\ CanAcquire(s)
                /\ semaphore' = [semaphore EXCEPT ![s] = @ - 1]
                /\ pc' = [pc EXCEPT ![c] = "sleep"]
                /\ UNCHANGED tasks
           ELSE /\ tasks' = [tasks EXCEPT ![c] = Append(@, NewTask(s, FALSE))]
                /\ pc' = [pc EXCEPT ![c] = AfterSite(c, tasks'[c])]
                /\ UNCHANGED semaphore
    /\ UNCHANGED <<params, target_sites, results, raised, clock,
                 flow, base_site, selection, feishu, limiter>>

\* mutation: the permit is handed back when acquire() returns
SleepDoneReleasing(c) ==
    /\ pc[c] = "sleep"
    /\ LET s == target_sites[c][Len(tasks[c]) + 1]
       IN  /\ tasks' = [tasks EXCEPT ![c] = Append(@, NewTask(s, TRUE))]
           /\ semaphore' = [semaphore EXCEPT ![s] = @ + 1]
    /\ pc' = [pc EXCEPT ![c] = AfterSite(c, tasks'[c])]
    /\ clock' = clock + 1
    /\ UNCHANGED <<params, target_sites, results, raised,
                 flow, base_site, selection, feishu, limiter>>

\* lines 278 and 84: the sleep of period / max_calls ends, acquire() returns
\* and the job's coroutine is appended to tasks
SleepDone(c) ==
    /\ pc[c] = "sleep"
    /\ LET s == target_sites[c][Len(tasks[c]) + 1]
       IN  tasks' = [tasks EXCEPT ![c] = Append(@, NewTask(s, TRUE))]
    /\ pc' = [pc EXCEPT ![c] = AfterSite(c, tasks'[c])]
    /\ clock' = clock + 1
    /\ UNCHANGED <<semaphore, params, target_sites, results, raised,
                 flow, base_site, selection, feishu, limiter>>

\* get_session of sites/base.py, the first await of the adapters' collect:
\* the session is created when there is none or the old one is closed
get_session(session) == IF session \in {"none", "closed"} THEN "open" ELSE session

\* ---------------------------------------------- _collect_single_site
Job(c, k) == tasks[c][k]

SetJob(c, k, j) == tasks' = [tasks EXCEPT ![c][k] = j]

\* the tasks of a call run once gather has scheduled them (line 87)
Runnable(c, k) ==
    /\ pc[c] = "gather"
    /\ k \in 1..Len(tasks[c])

\* mutation: the except clause returns an empty result dict
OnExceptionEmptyDict(site_code, now) == SiteResult(site_code, << >>, now)

\* what the except clause of lines 138-140 returns
OnException(site_code, now) == ResultNone

\* mutation: cleanup is awaited on the success path only
FinallyOnSuccess(j) ==
    IF j.site # "None" /\ j.result.kind = "dict"
    THEN [j EXCEPT !.pc = "cleanup", !.cleanups = @ + 1]
    ELSE [j EXCEPT !.pc = "done"]

\* lines 141-144: the finally clause awaits site.cleanup when a site exists
Finally(j) ==
    IF j.site # "None"
    THEN [j EXCEPT !.pc = "cleanup", !.cleanups = @ + 1]
    ELSE [j EXCEPT !.pc = "done"]

\* lines 100-122: the adapter is constructed and site.collect is awaited;
\* without an adapter class the job returns None and the finally clause
\* finds no site to clean up
JobStart(c, k) ==
    /\ Runnable(c, k)
    /\ Job(c, k).pc = "created"
    /\ LET site == create_site(Job(c, k).site_code)
       IN  IF site = "None"
           THEN SetJob(c, k, Finally([Job(c, k) EXCEPT !.result = ResultNone]))
           ELSE SetJob(c, k, [Job(c, k) EXCEPT !.pc = "fetching", !.site = site,
                                               !.session = get_session(@),
                                               !.fetch = "running"])
    /\ UNCHANGED <<semaphore, pc, params, target_sites, results, raised, clock,
                 flow, base_site, selection, feishu, limiter>>

\* line 213 raises: site is still None, the except clause returns None
ConstructRaise(c, k) ==
    /\ Runnable(c, k)
    /\ Job(c, k).pc = "created"
    /\ create_site(Job(c, k).site_code) # "None"
    /\ SetJob(c, k, Finally([Job(c, k) EXCEPT
                                !.raises = @ \cup {"construct"},
                                !.result = OnException(Job(c, k).site_code, clock)]))
    /\ UNCHANGED <<semaphore, pc, params, target_sites, results, raised, clock,
                 flow, base_site, selection, feishu, limiter>>

\* lines 122-136 and 141-144: site.collect returns n records, the post
\* plugins pass them through, the dict is built and the finally clause runs
FetchReturn(c, k, n) ==
    /\ Runnable(c, k)
    /\ Job(c, k).pc = "fetching"
    /\ SetJob(c, k, Finally([Job(c, k) EXCEPT
                                !.fetch = "returned",
                                !.result = SiteResult(Job(c, k).site_code,
                                                      Records(Job(c, k).site_code, n),
                                                      clock)]))
    /\ UNCHANGED <<semaphore, pc, params, target_sites, results, raised, clock,
                 flow, base_site, selection, feishu, limiter>>

\* mutation: cleanup follows the try statement instead of being its finally
\* clause, so the return of the except clause skips it
FetchRaiseNoCleanup(c, k) ==
    /\ Runnable(c, k)
    /\ Job(c, k).pc = "fetching"
    /\ SetJob(c, k, [Job(c, k) EXCEPT
                        !.pc = "done",
                        !.fetch = "raised",
                        !.raises = @ \cup {"fetch"},
                        !.result = OnException(Job(c, k).site_code, clock)])
    /\ UNCHANGED <<semaphore, pc, params, target_sites, results, raised, clock,
                 flow, base_site, selection, feishu, limiter>>

\* lines 122, 138-144: site.collect raises, the except clause returns None
\* and the finally clause runs
FetchRaise(c, k) ==
    /\ Runnable(c, k)
    /\ Job(c, k).pc = "fetching"
    /\ SetJob(c, k, Finally([Job(c, k) EXCEPT
                                !.fetch = "raised",
                                !.raises = @ \cup {"fetch"},
                                !.result = OnException(Job(c, k).site_code, clock)]))
    /\ UNCHANGED <<semaphore, pc, params, target_sites, results, raised, clock,
                 flow, base_site, selection, feishu, limiter>>

\* line 122: site.collect never returns (the engine sets no deadline)
FetchHang(c, k) ==
    /\ Runnable(c, k)
    /\ Job(c, k).pc = "fetching"
    /\ SetJob(c, k, [Job(c, k) EXCEPT !.pc = "hung"])
    /\ UNCHANGED <<semaphore, pc, params, target_sites, results, raised, clock,
                 flow, base_site, selection, feishu, limiter>>

\* BaseSite.cleanup: an open session is closed
Closed(session) == IF session = "open" THEN "closed" ELSE session

\* line 144 returns: the job ends with the result it had
CleanupReturn(c, k) ==
    /\ Runnable(c, k)
    /\ Job(c, k).pc = "cleanup"
    /\ SetJob(c, k, [Job(c, k) EXCEPT !.pc = "done", !.session = Closed(@)])
    /\ UNCHANGED <<semaphore, pc, params, target_sites, results, raised, clock,
                 flow, base_site, selection, feishu, limiter>>

\* line 144 raises inside the finally clause: the exception replaces the
\* job's return value and leaves _collect_single_site; close() did not finish
CleanupRaise(c, k) ==
    /\ Runnable(c, k)
    /\ Job(c, k).pc = "cleanup"
    /\ SetJob(c, k, [Job(c, k) EXCEPT !.pc = "done",
                                      !.raises = @ \cup {"cleanup"},
                                      !.result = ResultException])
    /\ UNCHANGED <<semaphore, pc, params, target_sites, results, raised, clock,
                 flow, base_site, selection, feishu, limiter>>

\* ---------------------------------------------- collect(): gather
Finished(j) == j.pc = "done"

\* mutation: the wait ends with the first finished task
AnyTaskFinished(ts) == \E k \in 1..Len(ts) : Finished(ts[k])

\* gather returns once every awaitable has finished
AllTasksFinished(ts) == \A k \in 1..Len(ts) : Finished(ts[k])

\* mutation: gather without return_exceptions propagates an exception
GatherPropagating(ts) ==
    [raised |-> \E k \in 1..Len(ts) : ts[k].result.kind = "exception",
     site_results |-> [k \in 1..Len(ts) |-> ts[k].result]]

\* asyncio.gather(*tasks, return_exceptions=True): exceptions are results
Gather(ts) ==
    [raised |-> FALSE, site_results |-> [k \in 1..Len(ts) |-> ts[k].result]]

IsException(result) == result.kind = "exception"

\* mutation: a result without news counts as false
TruthyNonEmpty(result) == result.kind = "dict" /\ result.news # << >>

\* truth value of a job's return value: None is false, the dict (which
\* always has its four keys) is true
Truthy(result) == result.kind = "dict"

\* lines 90-94
Kept(result) == ~IsException(result) /\ Truthy(result)

\* lines 87-96
CollectReturn(c) ==
    /\ pc[c] = "gather"
    /\ AllTasksFinished(tasks[c])
    /\ LET g == Gather(tasks[c])
       IN  /\ raised' = [raised EXCEPT ![c] = g.raised]
           /\ results' = [results EXCEPT ![c] =
                             IF g.raised THEN << >> ELSE SelectSeq(g.site_results, Kept)]
    /\ pc' = [pc EXCEPT ![c] = "returned"]
    /\ UNCHANGED <<semaphore, params, target_sites, tasks, clock,
                 flow, base_site, selection, feishu, limiter>>

Next ==
    \/ \E c \in Calls, req \in Requests : CollectCall(c, req)
    \/ \E c \in Calls : LimiterAcquire(c)
    \/ \E c \in Calls : SleepDone(c)
    \/ \E c \in Calls, k \in 1..Len(ConfigOrder) : JobStart(c, k)
    \/ \E c \in Calls, k \in 1..Len(ConfigOrder) : ConstructRaise(c, k)
    \/ \E c \in Calls, k \in 1..Len(ConfigOrder), n \in 0..MaxRecords : FetchReturn(c, k, n)
    \/ \E c \in Calls, k \in 1..Len(ConfigOrder) : FetchRaise(c, k)
    \/ \E c \in Calls, k \in 1..Len(ConfigOrder) : FetchHang(c, k)
    \/ \E c \in Calls, k \in 1..Len(ConfigOrder) : CleanupReturn(c, k)
    \/ \E c \in Calls, k \in 1..Len(ConfigOrder) : CleanupRaise(c, k)
    \/ \E c \in Calls : CollectReturn(c)

Spec == Init /\ [][Next]_vars

\* the event loop runs every coroutine that is ready: each await that can
\* complete does; callers are free to make no further collect() call
FairSpec ==
    /\ Spec
    /\ \A c \in Calls :
          /\ WF_vars(LimiterAcquire(c))
          /\ WF_vars(SleepDone(c))
          /\ WF_vars(CollectReturn(c))
          /\ \A k \in 1..Len(ConfigOrder) :
                /\ WF_vars(JobStart(c, k) \/ ConstructRaise(c, k))
                /\ WF_vars((\E n \in 0..MaxRecords : FetchReturn(c, k, n))
                             \/ FetchRaise(c, k) \/ FetchHang(c, k))
                /\ WF_vars(CleanupReturn(c, k) \/ CleanupRaise(c, k))

TypeOK ==
    /\ \A s \in DOMAIN semaphore : semaphore[s] \in 0..max_calls(s)
    /\ \A c \in Calls : pc[c] \in {"idle", "acquire", "sleep", "gather", "returned"}

\* ------------------------------------------- records of one job
\* largest number of records site.collect returns in the record flow
MaxData == 2

\* what an adapter may put in a record: each field empty or not
RawRecords == [title : {"", "A"}, url : {"", "http://a"}, site_code : {"", "weibo"}]

DataLists == UNION {[1..n -> RawRecords] : n \in 0..MaxData}

\* PluginManager.apply_post_plugins: the data is returned as it is
apply_post_plugins(data) == data

FlowInit ==
    /\ CollectionInit
    /\ flow = [FlowIdle EXCEPT !.pc = "fetch"]
    /\ base_site = NoSites
    /\ selection = NoSelection
    /\ feishu = NoFeishu
    /\ limiter = NoLimiter

\* line 122: site.collect returns its list
FlowFetch(data) ==
    /\ flow.pc = "fetch"
    /\ flow' = [flow EXCEPT !.pc = "post", !.data = data]
    /\ UNCHANGED <<cvars, base_site, selection, feishu, limiter>>

\* lines 125-136: the post plugins run and the job returns its dict
FlowResult ==
    /\ flow.pc = "post"
    /\ flow' = [flow EXCEPT !.pc = "gather",
                            !.result = SiteResult("weibo", apply_post_plugins(flow.data), 0)]
    /\ UNCHANGED <<cvars, base_site, selection, feishu, limiter>>

\* lines 87-96: collect() keeps the job's result and returns
FlowReturn ==
    /\ flow.pc = "gather"
    /\ flow' = [flow EXCEPT !.pc = "returned",
                            !.results = SelectSeq(<<flow.result>>, Kept)]
    /\ UNCHANGED <<cvars, base_site, selection, feishu, limiter>>

FlowNext ==
    \/ \E data \in DataLists : FlowFetch(data)
    \/ FlowResult
    \/ FlowReturn

FlowSpec == FlowInit /\ [][FlowNext]_vars

\* ------------------------------------------- BaseSite sessions
\* number of BaseSite instances followed
MaxSites == 2
\* most sessions one instance creates
MaxSessions == 2
\* most cleanup() calls made on one instance
MaxCleanups == 3

Sites == 1..MaxSites

\* BaseSite.__init__: _session is None; id numbers the ClientSession objects
\* the instance has created, closes counts the close() calls on each
NewSite ==
    [session  |-> "none",
     id       |-> 0,
     closes   |-> [n \in 1..MaxSessions |-> 0],
     cleanups |-> 0]

SiteInit ==
    /\ CollectionInit
    /\ flow = FlowIdle
    /\ base_site = [a \in Sites |-> NewSite]
    /\ selection = NoSelection
    /\ feishu = NoFeishu
    /\ limiter = NoLimiter

\* line 28: a session has to be created
NeedsSession(site) == site.session \in {"none", "closed"}

\* get_session, lines 26-32, when it creates a ClientSession (with an open
\* session it returns that session and changes nothing)
GetSession(a) ==
    /\ NeedsSession(base_site[a])
    /\ base_site[a].id < MaxSessions
    /\ base_site' = [base_site EXCEPT ![a].session = get_session(@),
                                      ![a].id = @ + 1]
    /\ UNCHANGED <<cvars, flow, selection, feishu, limiter>>

\* mutation: the closed flag of the session is not looked at
NeedsCloseAlways(site) == site.session # "none"

\* line 36: there is a session and it is not closed
NeedsClose(site) == site.session # "none" /\ site.session # "closed"

\* cleanup, lines 34-37
Cleanup(a) ==
    /\ base_site[a].cleanups < MaxCleanups
    /\ IF NeedsClose(base_site[a])
       THEN base_site' = [base_site EXCEPT ![a].session = "closed",
                                           ![a].closes[base_site[a].id] = @ + 1,
                                           ![a].cleanups = @ + 1]
       ELSE base_site' = [base_site EXCEPT ![a].cleanups = @ + 1]
    /\ UNCHANGED <<cvars, flow, selection, feishu, limiter>>

\* WeiboSite.collect, lines 184-188: the adapter closes the session it got
\* from get_session before it returns
CollectClosesSession(a) ==
    /\ base_site[a].session = "open"
    /\ base_site' = [base_site EXCEPT ![a].session = "closed",
                                      ![a].closes[base_site[a].id] = @ + 1]
    /\ UNCHANGED <<cvars, flow, selection, feishu, limiter>>

SiteNext ==
    \/ \E a \in Sites : GetSession(a)
    \/ \E a \in Sites : Cleanup(a)
    \/ \E a \in Sites : CollectClosesSession(a)

SiteSpec == SiteInit /\ [][SiteNext]_vars

\* ------------------------------------------- SelectionEngine: values
\* Numbers are fixed point with four decimals: One stands for 1.0.  Strings
\* are sequences of characters; a character is written by its name (the
\* Chinese characters by their pinyin), " " is the blank.
One == 10000

Max(a, b) == IF a >= b THEN a ELSE b
Min(a, b) == IF a <= b THEN a ELSE b

\* a / b rounded to the nearest unit, for b > 0
DivRound(a, b) ==
    IF a >= 0 THEN (2 * a + b) \div (2 * b) ELSE -((2 * (-a) + b) \div (2 * b))

\* round(x, 2) for 0 <= x: to the nearest hundredth, a tie to the even one
Round2(x) ==
    LET q == x \div 100
        r == x % 100
    IN  100 * (IF r > 50 \/ (r = 50 /\ q % 2 = 1) THEN q + 1 ELSE q)

\* DEFAULT_CONFIG, lines 15-22
DEFAULT_CONFIG ==
    [weights          |-> [hot |-> 5000, recency |-> 2500, title |-> 1500,
                           platform |-> 1000],
     decay_hours      |-> 6,
     platform_weights |-> [weibo |-> 10000, baidu |-> 9500, zhihu |-> 9000,
                           default |-> 8000],
     threshold_score  |-> 1000]

\* x in s, for strings: s has x as a substring
Contains(s, x) ==
    \E n \in 0..(Len(s) - Len(x)) : SubSeq(s, n + 1, n + Len(x)) = x

\* str.lower(): the characters used here that have a lower case form
LowerCase == [A |-> "a", B |-> "b", I |-> "i"]

Lower(s) == [n \in 1..Len(s) |-> IF s[n] \in DOMAIN LowerCase THEN LowerCase[s[n]] ELSE s[n]]

RECURSIVE LStrip(_)
LStrip(s) == IF s # << >> /\ Head(s) = " " THEN LStrip(Tail(s)) ELSE s

RECURSIVE RStrip(_)
RStrip(s) ==
    IF s # << >> /\ s[Len(s)] = " " THEN RStrip(SubSeq(s, 1, Len(s) - 1)) ELSE s

\* str.strip()
StripStr(s) == RStrip(LStrip(s))

\* set(s.split()): the words of s between its blanks
RECURSIVE Words(_)
Words(s) ==
    LET t == LStrip(s)
    IN  IF t = << >> THEN {}
        ELSE LET ends == {n \in 1..Len(t) : t[n] = " "}
                 stop == IF ends = {} THEN Len(t) + 1
                         ELSE CHOOSE n \in ends : \A m \in ends : n <= m
             IN  {SubSeq(t, 1, stop - 1)} \cup Words(SubSeq(t, stop, Len(t)))

\* a field of a record: absent, null (None) or a value
Absent == [kind |-> "absent"]
Null == [kind |-> "null"]
Str(s) == [kind |-> "str", s |-> s]
Num(n) == [kind |-> "num", n |-> n]
\* a datetime object of the given hour; aware when it carries a time zone
DateTime(hour, aware) == [kind |-> "datetime", hour |-> hour, aware |-> aware]

\* not x, of a field value
Falsy(v) ==
    \/ v.kind \in {"absent", "null"}
    \/ v.kind = "str" /\ v.s = << >>
    \/ v.kind = "num" /\ v.n = 0

\* dict.get(key, default) of a dict given as a function on its keys
Get(d, key, default) == IF key \in DOMAIN d THEN d[key] ELSE default

\* item.get(key): the field's value, None when the key is absent
Field(item, key) == IF item[key].kind = "absent" THEN Null ELSE item[key]

\* ---------------------------------------- SelectionEngine: components
\* math.log1p on the heat values of the records below, four decimals
Log1pTable ==
    <<<<0, 0>>, <<1, 6931>>, <<100, 46151>>, <<101, 46250>>, <<10000, 92104>>,
      <<100000, 115129>>, <<2000000000, 214164>>>>

log1p(v) == (CHOOSE n \in 1..Len(Log1pTable) : Log1pTable[n][1] = v)

Digits == <<"0", "1", "2", "3", "4", "5", "6", "7", "8", "9">>

IsDigit(c) == \E n \in 1..Len(Digits) : Digits[n] = c

DigitOf(c) == (CHOOSE n \in 1..Len(Digits) : Digits[n] = c) - 1

RECURSIVE Decimal(_)
Decimal(s) ==
    IF s = << >> THEN 0
    ELSE 10 * Decimal(SubSeq(s, 1, Len(s) - 1)) + DigitOf(s[Len(s)])

\* float(hot), for None, an integer, infinity, and a string that is an
\* unsigned decimal integer or holds another character: the value, or
\* "raised" for the TypeError / ValueError
float(hot) ==
    CASE hot.kind = "num" -> [kind |-> "num", n |-> hot.n]
      [] hot.kind = "inf" -> [kind |-> "inf"]
      [] hot.kind = "str" ->
            LET t == StripStr(hot.s)
            IN  IF t # << >> /\ \A n \in 1..Len(t) : IsDigit(t[n])
                THEN [kind |-> "num", n |-> Decimal(t)]
                ELSE [kind |-> "raised"]
      [] OTHER -> [kind |-> "raised"]

log1p_norm_hot_default_one(hot) ==
    LET f == float(hot)
        val == IF f.kind = "raised" THEN [kind |-> "num", n |-> 1] ELSE f
        s == IF val.kind = "inf" THEN 10 * One
             ELSE DivRound(Log1pTable[log1p(Max(0, val.n))][2], 10)
    IN  Max(0, Min(One, s))

log1p_norm_hot_uncapped(hot) ==
    LET f == float(hot)
        val == IF f.kind = "raised" THEN [kind |-> "num", n |-> 0] ELSE f
    IN  IF val.kind = "inf" THEN 10 * One
        ELSE DivRound(Log1pTable[log1p(Max(0, val.n))][2], 10)

\* _log1p_norm_hot, lines 86-94; hot is item.get("hot", 0)
log1p_norm_hot(hot) ==
    LET f == float(hot)
        val == IF f.kind = "raised" THEN [kind |-> "num", n |-> 0] ELSE f
        s == IF val.kind = "inf" THEN 10 * One
             ELSE DivRound(Log1pTable[log1p(Max(0, val.n))][2], 10)
    IN  Max(0, Min(One, s))

\* math.exp(-k) for a whole k >= 0, four decimals
ExpTable ==
    <<10000, 3679, 1353, 498, 183, 67, 25, 9, 3, 1>>

exp_neg(k) == IF k < Len(ExpTable) THEN ExpTable[k + 1] ELSE 0

\* datetime.fromisoformat(s.replace(' ', 'T')): a string is a timestamp
\* when it reads <<"T", hour>>; every other string raises ValueError
IsIso(s) == Len(s) = 2 /\ s[1] = "T"

\* _recency_score, lines 96-111; time is counted in hours and the ages
\* that occur are whole multiples of decay_hours
recency_score_zero(collected_at, decay_hours, now) == 0

recency_score(collected_at, decay_hours, now) ==
    IF Falsy(collected_at) THEN One \div 2
    ELSE CASE collected_at.kind = "str" /\ ~IsIso(collected_at.s) -> One \div 2
           [] collected_at.kind = "datetime" /\ collected_at.aware -> One \div 2
           [] collected_at.kind \notin {"str", "datetime"} -> One \div 2
           [] OTHER ->
                LET dt == IF collected_at.kind = "str" THEN collected_at.s[2]
                          ELSE collected_at.hour
                    hours == Max(0, now - dt)
                IN  exp_neg(hours \div Max(1, decay_hours))

\* the keywords of _title_keyword_score, line 119
kws ==
    <<<<"guan", "xuan">>, <<"bao">>, <<"shou">>, <<"duo", "guan">>,
      <<"li", "shi">>, <<"re">>, <<"fullwidth ?">>, <<"?">>, <<"!">>,
      <<"fullwidth !">>, <<"#">>>>

\* the body of _title_keyword_score, lines 116-129; title is
\* item.get("title", ""), None or a string
title_keyword_score_body(title) ==
    IF Falsy(title) THEN 0
    ELSE LET hits == Cardinality({n \in 1..Len(kws) : Contains(title.s, kws[n])})
             ln == Len(StripStr(title.s))
             score == hits * One + (IF 5 <= ln /\ ln <= 30 THEN One \div 2 ELSE 0)
         IN  Min(One, DivRound(score, 3))

title_keyword_score_forgetful(title, cache) ==
    IF title \in DOMAIN cache THEN 0 ELSE title_keyword_score_body(title)

\* _title_keyword_score under @lru_cache, line 113: the score kept for a
\* title that was scored before, the body's for a new one
title_keyword_score(title, cache) ==
    IF title \in DOMAIN cache THEN cache[title] ELSE title_keyword_score_body(title)

\* _platform_weight, lines 131-133; site_code is item.get("site_code"), a
\* site's code being one word and not a sequence of characters
platform_weight(site_code, cfg) ==
    IF site_code.kind = "str" /\ site_code.s \in DOMAIN cfg.platform_weights
    THEN cfg.platform_weights[site_code.s]
    ELSE cfg.platform_weights["default"]

general_keywords ==
    <<<<"re", "dian">>, <<"xin", "wen">>, <<"shi", "jian">>, <<"hua", "ti">>,
      <<"zui", "xin">>, <<"re", "men">>>>

\* a dict or list is true when it is not empty
Truthful(d) == DOMAIN d # {}

\* item.get("title", "").lower() raises AttributeError on None, line 140
content_match_raises(item, platform_config) ==
    Truthful(platform_config) /\ item.title.kind = "null"

\* the score one preference gives, lines 151-168
preference_score(preference, title) ==
    LET preference_lower == Lower(preference)
        overlap == Cardinality(Words(preference_lower) \cap Words(title))
    IN  IF Contains(title, preference_lower) THEN One
        ELSE Min(8000, overlap * 2000)

RECURSIVE MaxOf(_)
MaxOf(S) ==
    IF S = {} THEN 0
    ELSE LET x == CHOOSE y \in S : TRUE IN Max(x, MaxOf(S \ {x}))

\* _content_match_score, lines 135-179, where it does not raise
content_match_score(item, platform_config) ==
    IF ~Truthful(platform_config) THEN One \div 2
    ELSE LET title == Lower(IF item.title.kind = "absent" THEN << >> ELSE item.title.s)
             platform_preferences == Get(platform_config, "content_preferences", << >>)
             match_score ==
                 MaxOf({preference_score(platform_preferences[n], title) :
                           n \in 1..Len(platform_preferences)})
         IN  IF platform_preferences = << >> THEN One \div 2
             ELSE IF match_score # 0 THEN match_score
             ELSE IF \E n \in 1..Len(general_keywords) :
                         Contains(title, general_keywords[n])
                  THEN 3000
                  ELSE 1000

\* the breakdown of _score_item: every component, rounded to six decimals
Breakdown(hot, rec, title, content_match, pboost, platform_config) ==
    IF Truthful(platform_config) /\ "scoring_weights" \in DOMAIN platform_config
    THEN [hot |-> hot, recency |-> rec, title |-> title,
          content_match |-> content_match, platform |-> pboost]
    ELSE [hot |-> hot, recency |-> rec, title |-> title, platform |-> pboost]

FinalDefaultWeights(hot, rec, title, content_match, pboost, w, platform_config) ==
    DivRound(w.hot * hot + w.recency * rec + w.title * title + w.platform * pboost, One)

\* the weighted sum of _score_item, lines 196-217, before it is clamped
Final(hot, rec, title, content_match, pboost, w, platform_config) ==
    IF Truthful(platform_config) /\ "scoring_weights" \in DOMAIN platform_config
    THEN LET platform_weights == platform_config["scoring_weights"]
         IN  DivRound(hot * Get(platform_weights, "hot", w.hot)
                      + rec * Get(platform_weights, "recency", w.recency)
                      + title * Get(platform_weights, "title", w.title)
                      + content_match * Get(platform_weights, "content_match", 3000)
                      + pboost * Get(platform_weights, "platform", w.platform),
                      One)
    ELSE DivRound(w.hot * hot + w.recency * rec + w.title * title
                  + w.platform * pboost, One)

\* _score_item, lines 181-227, where _content_match_score does not raise
score_item_unclamped(item, cfg, platform_config, now, cache) ==
    LET hot == log1p_norm_hot(IF item.hot.kind = "absent" THEN Num(0) ELSE item.hot)
        rec == recency_score(Field(item, "collected_at"), cfg.decay_hours, now)
        title == title_keyword_score(IF item.title.kind = "absent" THEN Str(<< >>)
                                     ELSE item.title, cache)
        pboost == platform_weight(Field(item, "site_code"), cfg)
        content_match == content_match_score(item, platform_config)
    IN  [score |-> Final(hot, rec, title, content_match, pboost, cfg.weights,
                         platform_config),
         breakdown |-> Breakdown(hot, rec, title, content_match, pboost,
                                 platform_config)]

score_item(item, cfg, platform_config, now, cache) ==
    LET hot == log1p_norm_hot(IF item.hot.kind = "absent" THEN Num(0) ELSE item.hot)
        rec == recency_score(Field(item, "collected_at"), cfg.decay_hours, now)
        title == title_keyword_score(IF item.title.kind = "absent" THEN Str(<< >>)
                                     ELSE item.title, cache)
        pboost == platform_weight(Field(item, "site_code"), cfg)
        content_match == content_match_score(item, platform_config)
        final == Final(hot, rec, title, content_match, pboost, cfg.weights,
                       platform_config)
    IN  [score |-> Max(0, Min(One, final)),
         breakdown |-> Breakdown(hot, rec, title, content_match, pboost,
                                 platform_config)]

\* ------------------------------------------ SelectionEngine: results
\* _generate_content_angle, lines 394-418: the wording chosen and the
\* title it is wrapped around
generate_content_angle(hotspot, platform_config) ==
    LET title == IF hotspot.title.kind = "absent" THEN Str(<< >>) ELSE hotspot.title
        platform_style == Get(platform_config, "content_style", << >>)
    IN  [title |-> title,
         angle |->
            CASE Contains(platform_style, <<"qing", "gan">>) -> "personal view"
              [] Contains(platform_style, <<"shen", "du">>)
                 \/ Contains(platform_style, <<"zhuan", "ye">>) -> "deep analysis"
              [] Contains(platform_style, <<"qu", "shi">>) -> "trend reading"
              [] OTHER -> "hotspot reading"]

\* _recommend_strategy, lines 420-443
recommend_strategy(hotspot, platform_config) ==
    LET platform_name == Get(platform_config, "name", << >>)
    IN  CASE Contains(platform_name, <<"xiao", "hong", "shu">>) -> "emotional appeal"
          [] Contains(platform_name, <<"zhi", "hu">>) -> "knowledge sharing"
          [] Contains(platform_name, <<"tou", "tiao">>)
             \/ Contains(platform_name, <<"wei", "bo">>) -> "trend analysis"
          [] OTHER -> "quick news"

\* _generate_recommendation_reason_simple, lines 269-298: the reasons joined
generate_recommendation_reason_simple(score, breakdown) ==
    LET hot == Get(breakdown, "hot", 0)
        recency == Get(breakdown, "recency", 0)
        title == Get(breakdown, "title", 0)
        content_match == Get(breakdown, "content_match", 0)
        platform == Get(breakdown, "platform", 0)
        reasons ==
            (IF hot >= 7000 THEN <<"hot very high">>
             ELSE IF hot >= 4000 THEN <<"hot moderate">> ELSE << >>)
            \o (IF recency >= 7000 THEN <<"very recent">>
                ELSE IF recency >= 4000 THEN <<"recent">> ELSE << >>)
            \o (IF title >= 5000 THEN <<"attractive title">> ELSE << >>)
            \o (IF content_match >= 7000 THEN <<"content matches well">>
                ELSE IF content_match >= 4000 THEN <<"content matches">> ELSE << >>)
            \o (IF platform >= 8000 THEN <<"platform fits well">>
                ELSE IF platform >= 5000 THEN <<"platform fits">> ELSE << >>)
    IN  IF reasons = << >> THEN <<"good overall">> ELSE reasons

\* list.sort(key=lambda x: x["total_score"], reverse=True), line 390: a
\* stable sort, entries of equal key keep the order they had
RECURSIVE SortByTotalScore(_)
SortByTotalScore(list) ==
    IF list = << >> THEN << >>
    ELSE LET last == list[Len(list)]
             before == SortByTotalScore(SubSeq(list, 1, Len(list) - 1))
             keep == {n \in 1..Len(before) : before[n].total_score >= last.total_score}
             k == Cardinality(keep)
         IN  SubSeq(before, 1, k) \o <<last>> \o SubSeq(before, k + 1, Len(before))

\* the result object of one hotspot, lines 376-386
ResultOf(hotspot, platform_config, scored) ==
    [hotspot_id           |-> Field(hotspot, "id"),
     title                |-> Field(hotspot, "title"),
     url                  |-> Field(hotspot, "url"),
     site_code            |-> Field(hotspot, "site_code"),
     total_score          |-> Round2(scored.score),
     content_angle        |-> generate_content_angle(hotspot, platform_config),
     recommended_strategy |-> recommend_strategy(hotspot, platform_config),
     reason               |-> generate_recommendation_reason_simple(scored.score,
                                                                    scored.breakdown),
     detailed_scores      |-> scored.breakdown]

\* ----------------------------------------- SelectionEngine: analysis
MaxHotspots == 2
MaxPlatforms == 2
MaxAnalyses == 2
MaxEnsures == 3
MaxExpiries == 1
MaxRequests == 7
MaxOtherRequests == 1
MaxTicks == 2

\* the hour of the first invocation and the hours between two clock readings
StartHour == 48
TickHours == 12

\* self.platform_profiles as _load_configs builds it, lines 44-50: the
\* selection_rules of each publish platform, in the order of the file
ProfileOrder == <<"xiaohongshu", "zhihu", "toutiao", "douyin">>

platform_profiles ==
    [xiaohongshu |->
        [name |-> <<"xiao", "hong", "shu">>,
         content_style |-> <<"qing", "gan", " ", "fen", "xiang">>,
         content_preferences |-> <<<<"A", "I">>, <<"xin", "wen", " ", "ke", "ji">>>>,
         scoring_weights |-> [hot |-> 3000, recency |-> 2000, title |-> 1000,
                              content_match |-> 3000]],
     zhihu |->
        [name |-> <<"zhi", "hu">>,
         content_style |-> <<"shen", "du">>,
         content_preferences |-> <<<<"ke", "ji">>>>],
     toutiao |-> << >>,
     douyin |->
        [name |-> <<"dou", "yin">>,
         scoring_weights |-> [hot |-> 20000, recency |-> -20000, title |-> 5000,
                              content_match |-> 5000, platform |-> 5000]]]

\* the channel names a caller may send: the configured ones and one more
PlatformNames == {ProfileOrder[n] : n \in 1..Len(ProfileOrder)} \cup {"nosuch"}

\* the platforms argument: None or a list of names
List(l) == [kind |-> "list", l |-> l]

PlatformRequests ==
    {Null} \cup {List(l) : l \in UNION {[1..n -> PlatformNames] : n \in 0..MaxPlatforms}}

Hotspot(id, title, url, site_code, hot, collected_at) ==
    [id |-> id, title |-> title, url |-> url, site_code |-> site_code,
     hot |-> hot, collected_at |-> collected_at]

\* the records a caller may send
HotspotCatalog ==
    {Hotspot(Num(1), Str(<<"A">>), Str(<<"u", "1">>), Str("weibo"), Num(10000),
             Str(<<"T", StartHour>>)),
     Hotspot(Num(2), Str(<<"B", " ", "xin", "wen">>), Str(<<"u", "2">>), Str("baidu"),
             Num(100), Str(<<"T", StartHour - 24>>)),
     Hotspot(Num(3), Str(<<"B", " ", "xin", "wen">>), Str(<<"u", "3">>), Str("baidu"),
             Str(<<"1", "0", "1">>), DateTime(StartHour - 24, FALSE)),
     Hotspot(Num(4), Absent, Str(<<"u", "4">>), Str("other"), Str(<<"a", "b", "c">>),
             DateTime(StartHour - 48, FALSE)),
     Hotspot(Num(5), Null, Null, Null, Null, Str(<< >>)),
     Hotspot(Absent, Absent, Absent, Absent, Absent, Absent),
     Hotspot(Num(7), Str(<<"guan", "xuan", "!", "duo", "guan", "#">>), Str(<<"u", "7">>),
             Str("zhihu"), Num(2000000000), DateTime(StartHour, TRUE)),
     Hotspot(Num(8), Str(<<"A", "I", " ", "xin", "wen", " ", "re", "dian">>), Absent,
             Str("zhihu"), Num(-5), Str(<<"x">>)),
     Hotspot(Num(9), Str(<< >>), Str(<<"u", "9">>), Str("weibo"), [kind |-> "inf"],
             Num(1700000000))}

HotspotLists == UNION {[1..n -> HotspotCatalog] : n \in 0..MaxHotspots}

\* the lru_cache after the titles of these records were scored in turn
RECURSIVE CacheAfter(_, _)
CacheAfter(hotspots, cache) ==
    IF hotspots = << >> THEN cache
    ELSE LET before == CacheAfter(SubSeq(hotspots, 1, Len(hotspots) - 1), cache)
             item == hotspots[Len(hotspots)]
             title == IF item.title.kind = "absent" THEN Str(<< >>) ELSE item.title
         IN  [t \in DOMAIN before \cup {title} |->
                 IF t \in DOMAIN before THEN before[t] ELSE title_keyword_score_body(t)]

PassesThresholdAlways(score, threshold_score) == TRUE

\* the threshold filter, line 374
PassesThreshold(score, threshold_score) == score >= threshold_score

NoSort(list) == list

\* platform_results.sort(...), line 390
Sort(list) == SortByTotalScore(list)

\* the first record on which _score_item raises for this platform, 0 if none
RaisesAt(hotspots, platform) ==
    LET platform_config == Get(platform_profiles, platform, << >>)
        bad == {n \in 1..Len(hotspots) : content_match_raises(hotspots[n], platform_config)}
    IN  IF bad = {} THEN 0 ELSE CHOOSE n \in bad : \A m \in bad : n <= m

\* _analyze_platform_hotspots, lines 345-392, where no record raises
analyze_platform_hotspots(hotspots, platform, now, cache) ==
    LET cfg == DEFAULT_CONFIG
        threshold_score == cfg.threshold_score
        platform_config == Get(platform_profiles, platform, << >>)
        scored(n) == score_item(hotspots[n], cfg, platform_config, now,
                                CacheAfter(SubSeq(hotspots, 1, n - 1), cache))
        passing == SelectSeq([n \in 1..Len(hotspots) |-> n],
                             LAMBDA n : PassesThreshold(scored(n).score, threshold_score))
    IN  Sort([k \in 1..Len(passing) |->
                 ResultOf(hotspots[passing[k]], platform_config, scored(passing[k]))])

KeepsListAlways(platform_result) == TRUE

\* if platform_result, line 331
KeepsList(platform_result) == platform_result # << >>

\* the result of analyze_hotspots, lines 317-343
AnalysisResult(hotspots, platforms, platform_results, now) ==
    [selections |->
        [p \in {platforms[n] : n \in {m \in 1..Len(platforms) :
                                          KeepsList(platform_results[m])}} |->
            LET last == CHOOSE n \in 1..Len(platforms) :
                            /\ platforms[n] = p
                            /\ KeepsList(platform_results[n])
                            /\ \A m \in 1..Len(platforms) :
                                   platforms[m] = p /\ KeepsList(platform_results[m])
                                       => m <= n
            IN  platform_results[last]],
     selection_criteria |->
        [strategy_used |-> "lightweight_scoring",
         total_hotspots_analyzed |-> Len(hotspots),
         platforms_analyzed |-> platforms,
         selection_timestamp |-> now,
         threshold_score |-> DEFAULT_CONFIG.threshold_score]]

\* the engine between two requests
SelIdle(hotspots, request) ==
    [pc |-> "idle", now |-> StartHour, cache |-> << >>, hotspots |-> hotspots,
     request |-> request, platforms |-> << >>, platform_results |-> << >>,
     history |-> << >>]

\* selection_engine = SelectionEngine() of endpoints/selection.py, line 77,
\* and the request body every call of the behaviour sends
SelInit ==
    /\ CollectionInit
    /\ flow = FlowIdle
    /\ base_site = NoSites
    /\ feishu = NoFeishu
    /\ limiter = NoLimiter
    /\ \E hotspots \in HotspotLists, request \in PlatformRequests :
          selection = SelIdle(hotspots, request)

\* the clock moves on between two requests
Tick ==
    /\ selection.pc = "idle"
    /\ selection.now < StartHour + MaxTicks * TickHours
    /\ selection' = [selection EXCEPT !.now = @ + TickHours]
    /\ UNCHANGED <<cvars, flow, base_site, feishu, limiter>>

\* analyze_hotspots up to its gather, lines 313-327
AnalyzeCall ==
    /\ selection.pc = "idle"
    /\ Len(selection.history) < MaxAnalyses
    /\ selection' =
          [selection EXCEPT
              !.pc = "gather",
              !.platforms = IF selection.request.kind = "null"
                               \/ selection.request.l = << >>
                            THEN ProfileOrder ELSE selection.request.l,
              !.platform_results = << >>]
    /\ UNCHANGED <<cvars, flow, base_site, feishu, limiter>>

\* one task of the gather runs _analyze_platform_hotspots to its end
PlatformTask ==
    /\ selection.pc = "gather"
    /\ Len(selection.platform_results) < Len(selection.platforms)
    /\ LET platform == selection.platforms[Len(selection.platform_results) + 1]
           bad == RaisesAt(selection.hotspots, platform)
       IN  IF bad = 0
           THEN selection' =
                  [selection EXCEPT
                      !.platform_results =
                          Append(@, analyze_platform_hotspots(selection.hotspots, platform,
                                                              selection.now, selection.cache)),
                      !.cache = CacheAfter(selection.hotspots, @)]
           ELSE selection' =
                  [selection EXCEPT
                      !.pc = "raising",
                      !.cache = CacheAfter(SubSeq(selection.hotspots, 1, bad), @)]
    /\ UNCHANGED <<cvars, flow, base_site, feishu, limiter>>

\* the gather passes the task's exception on and analyze_hotspots raises it
AnalyzeRaise ==
    /\ selection.pc = "raising"
    /\ selection' =
          [selection EXCEPT
              !.pc = "idle",
              !.history = Append(@, [kind |-> "raised", at |-> selection.now])]
    /\ UNCHANGED <<cvars, flow, base_site, feishu, limiter>>

\* analyze_hotspots after its gather, lines 329-343
AnalyzeReturn ==
    /\ selection.pc = "gather"
    /\ Len(selection.platform_results) = Len(selection.platforms)
    /\ selection' =
          [selection EXCEPT
              !.pc = "idle",
              !.history =
                  Append(@, [kind |-> "returned", at |-> selection.now,
                             result |-> AnalysisResult(selection.hotspots,
                                                       selection.platforms,
                                                       selection.platform_results,
                                                       selection.now)])]
    /\ UNCHANGED <<cvars, flow, base_site, feishu, limiter>>

SelNext == Tick \/ AnalyzeCall \/ PlatformTask \/ AnalyzeRaise \/ AnalyzeReturn

SelSpec == SelInit /\ [][SelNext]_vars

\* ------------------------------------------------------------ claims
JobsOf(c) == 1..Len(tasks[c])

Returned(c) == pc[c] = "returned"

\* a job whose fetch returned and that saw no exception up to its end
Succeeded(j) == j.pc = "done" /\ j.fetch = "returned" /\ j.raises = {}

HasEntry(c, result) == \E n \in 1..Len(results[c]) : results[c][n] = result

EntriesOf(c, site_code) ==
    {n \in 1..Len(results[c]) : results[c][n].site_code = site_code}

\* a call is inside rate_limiter.acquire() for its n+1st site
InAcquire(c, n) == pc[c] \in {"acquire", "sleep"} /\ Len(tasks[c]) = n

\* C1: every acquire() call on a source's limiter eventually returns, over
\* any sequence of collect() calls on one engine instance.
C1_AcquireEventuallyReturns ==
    \A c \in Calls : \A n \in 0..(Len(ConfigOrder) - 1) :
        InAcquire(c, n) ~> (Len(tasks[c]) > n)

\* C2: an exception raised inside one source job never leaves collect(),
\* and when collect() returns every sibling job has run to its end and a
\* sibling that succeeded has its entry in the returned list.
C2_ExceptionsContained ==
    \A c \in Calls :
        /\ ~raised[c]
        /\ Returned(c) =>
             \A k \in JobsOf(c) :
                /\ Finished(Job(c, k))
                /\ Succeeded(Job(c, k)) => HasEntry(c, Job(c, k).result)

C2_Witness ==
    \E c \in Calls : \E k, m \in JobsOf(c) :
        /\ Returned(c)
        /\ "cleanup" \in Job(c, k).raises
        /\ Succeeded(Job(c, m))
        /\ HasEntry(c, Job(c, m).result)

\* the site codes whose fetch ended the given way in call c
FetchEnded(c, how) == {Job(c, k).site_code : k \in {m \in JobsOf(c) : Job(c, m).fetch = how}}

ResultsOf(ts) == [n \in 1..Len(ts) |-> ts[n].result]

ReleaseOrder(j) ==
    /\ j.cleanups <= 1
    /\ j.cleanups = 1 => j.fetch \in {"returned", "raised"}

SlotHolders(s) ==
    {ck \in Calls \X (1..Len(ConfigOrder)) :
        /\ ck[2] \in JobsOf(ck[1])
        /\ Job(ck[1], ck[2]).site_code = s
        /\ Job(ck[1], ck[2]).slot
        /\ ~Finished(Job(ck[1], ck[2]))}

Sleepers(s) ==
    {c \in Calls : pc[c] = "sleep" /\ target_sites[c][Len(tasks[c]) + 1] = s}

\* C5: for each source at most max_calls jobs hold a slot of its limiter
\* with their adapter invocation unfinished, and no fetch starts for a job
\* before acquire() has returned for it.
C5_ConcurrencyBound ==
    /\ \A s \in LimitedSites :
          Cardinality(SlotHolders(s)) + Cardinality(Sleepers(s)) <= max_calls(s)
    /\ \A c \in Calls : \A k \in JobsOf(c) :
          Job(c, k).fetch # "no" => Job(c, k).slot

C5_Witness ==
    \E s \in LimitedSites :
        /\ max_calls(s) > 1
        /\ Cardinality(SlotHolders(s)) = max_calls(s)
        /\ \A ck \in SlotHolders(s) : Job(ck[1], ck[2]).pc = "fetching"

\* some step of the job of the k-th target of call c: its acquire(), or a
\* step of its coroutine
JobStep(c, k) ==
    \/ Len(tasks[c]) + 1 = k /\ (LimiterAcquire(c) \/ SleepDone(c))
    \/ JobStart(c, k) \/ ConstructRaise(c, k)
    \/ (\E n \in 0..MaxRecords : FetchReturn(c, k, n)) \/ FetchRaise(c, k)
    \/ CleanupReturn(c, k) \/ CleanupRaise(c, k)

\* the job of the i-th target of call c is suspended in acquire() or fetch
Suspended(c, i) ==
    \/ /\ Len(tasks[c]) = i - 1
       /\ \/ pc[c] = "sleep"
          \/ pc[c] = "acquire" /\ semaphore[target_sites[c][i]] = 0
    \/ i \in JobsOf(c) /\ Job(c, i).pc = "fetching"

\* the job of the k-th target has work left and is not waiting on something
\* of its own: its limiter has a free permit, or it holds its slot
CouldProceed(c, k) ==
    IF k \in JobsOf(c)
    THEN Job(c, k).pc \in {"created", "fetching", "cleanup"}
    ELSE semaphore[target_sites[c][k]] > 0

\* C6: while one source's job is suspended in acquire() or in fetch, every
\* other resolved source's job of the call can obtain its slot and proceed.
C6_JobsIndependent ==
    \A c \in Calls : \A i, k \in 1..Len(target_sites[c]) :
        (pc[c] # "idle" /\ i # k /\ Suspended(c, i) /\ CouldProceed(c, k)) =>
            ENABLED JobStep(c, k)

\* C7: collect() returns only after every job of the call has ended, its
\* release included; with a job whose fetch never returns it never returns.
C7_ReturnsAfterAllJobs ==
    \A c \in Calls :
        /\ Returned(c) =>
             /\ Len(tasks[c]) = Len(target_sites[c])
             /\ \A k \in JobsOf(c) : Finished(Job(c, k))
        /\ (\E k \in JobsOf(c) : Job(c, k).pc = "hung") => ~Returned(c)

C7_Witness ==
    \E c \in Calls : \E k, m \in JobsOf(c) :
        /\ pc[c] = "gather"
        /\ Job(c, k).pc = "hung"
        /\ Succeeded(Job(c, m))

\* every entry carries the source code, a timestamp and the count of its
\* records, and is the result of a job of the call that succeeded
EntryOfSucceededJob(c, e) ==
    /\ e.kind = "dict"
    /\ e.site_code \in SeqToSet(target_sites[c])
    /\ e.collect_time \in 0..clock
    /\ e.data_count = Len(e.news)
    /\ \E k \in JobsOf(c) : Succeeded(Job(c, k)) /\ Job(c, k).result = e

\* C8 as stated: an entry is returned only for a job that succeeded with at
\* least one record; a fetch that returned nothing contributes no entry.
C8_OnlyNonEmptyEntries ==
    \A c \in Calls : Returned(c) =>
        \A n \in 1..Len(results[c]) :
            /\ EntryOfSucceededJob(c, results[c][n])
            /\ results[c][n].data_count >= 1

\* C8 amended: an entry is returned exactly for the jobs that succeeded,
\* also when the fetch returned no record (the entry then has item count 0);
\* every entry carries source code, timestamp and the count of its records.
C8_EntriesOfSucceededJobs ==
    \A c \in Calls : Returned(c) =>
        /\ \A n \in 1..Len(results[c]) : EntryOfSucceededJob(c, results[c][n])
        /\ \A k \in JobsOf(c) : Succeeded(Job(c, k)) => HasEntry(c, Job(c, k).result)

C8_Witness ==
    \E c \in Calls : \E n \in 1..Len(results[c]) :
        /\ Returned(c)
        /\ results[c][n].data_count = 0
        /\ results[c][n].news = << >>

\* the codes configured and enabled
EnabledSites == {s \in ConfiguredSites : sites_config[s].enabled}

\* the code a requested item names: blanks around it are dropped from the
\* pieces of a string, never from the members of a list
Named(req, t) == IF req.kind = "list" THEN t ELSE Strip(t)

\* C9: a limiter slot is taken and an adapter constructed only for codes
\* that are configured and enabled; unknown or disabled codes raise no
\* error and every other requested code is still collected.
C9_OnlyEnabledSites ==
    \A c \in Calls :
        /\ ~raised[c]
        /\ \A k \in JobsOf(c) : Job(c, k).site_code \in EnabledSites
        /\ \A s \in SeqToSet(target_sites[c]) : s \in EnabledSites
        /\ pc[c] # "idle" =>
             \A n \in 1..Len(params[c].items) :
                LET t == Named(params[c], params[c].items[n])
                IN  (~t.padded /\ t.code \in EnabledSites) =>
                        t.code \in SeqToSet(target_sites[c])
        /\ Returned(c) => Len(tasks[c]) = Len(target_sites[c])

C9_Witness ==
    \E c \in Calls :
        /\ Returned(c)
        /\ params[c].kind = "list"
        /\ \E n \in 1..Len(params[c].items) : params[c].items[n].code = "cctv"
        /\ target_sites[c] = <<"baidu">>
        /\ Len(results[c]) = 1

\* C10: for an enabled code without an adapter class create_site returns
\* None and the job is a skip: no fetch, no cleanup, no entry, no exception
\* out of collect(), and the jobs of the other sources keep their entries.
C10_MissingAdapterSkipped ==
    \A c \in Calls : \A k \in JobsOf(c) :
        Job(c, k).site_code \notin loaded_sites =>
            /\ Job(c, k).pc \in {"created", "done"}
            /\ Job(c, k).site = "None"
            /\ Job(c, k).fetch = "no"
            /\ Job(c, k).cleanups = 0
            /\ Job(c, k).raises = {}
            /\ Job(c, k).pc = "done" => Job(c, k).result = ResultNone
            /\ Returned(c) =>
                 /\ ~raised[c]
                 /\ EntriesOf(c, Job(c, k).site_code) = {}
                 /\ \A m \in JobsOf(c) :
                       Succeeded(Job(c, m)) => HasEntry(c, Job(c, m).result)

C10_Witness ==
    \E c \in Calls : \E k, m \in JobsOf(c) :
        /\ Returned(c)
        /\ Job(c, k).site_code \notin loaded_sites
        /\ Job(c, k).pc = "done"
        /\ Succeeded(Job(c, m))
        /\ HasEntry(c, Job(c, m).result)

\* the records collect() hands to its caller
Surfaced == UNION {SeqToSet(flow.results[n].news) : n \in 1..Len(flow.results)}

\* C11: every record in the result of collect() has a non-empty title and a
\* non-empty source code; a record without one of them never reaches the
\* caller.
C11_RecordsWellFormed ==
    flow.pc = "returned" =>
        \A r \in Surfaced : r.title # "" /\ r.site_code # ""

\* a step in which cleanup() ran on instance a
CleanupStep(a) == base_site'[a].cleanups = base_site[a].cleanups + 1

\* C12: cleanup() on a BaseSite whose session is absent or already closed
\* changes nothing, and no session is closed more than once, after any
\* sequence of get_session() and cleanup() calls.
C12_CleanupIdempotent ==
    /\ [](\A a \in DOMAIN base_site : \A n \in 1..MaxSessions :
              base_site[a].closes[n] <= 1)
    /\ [][\A a \in DOMAIN base_site :
              (CleanupStep(a) /\ base_site[a].session # "open") =>
                  /\ base_site'[a].session = base_site[a].session
                  /\ base_site'[a].id = base_site[a].id
                  /\ base_site'[a].closes = base_site[a].closes]_vars

C12_Witness ==
    \E a \in DOMAIN base_site :
        /\ base_site[a].cleanups >= 2
        /\ base_site[a].id = MaxSessions
        /\ base_site[a].session = "closed"
        /\ \A n \in 1..MaxSessions : base_site[a].closes[n] = 1

\* ------------------------------------------------- claims: selection
\* the platform tasks of the running analyze_hotspots that have ended
Analysed ==
    IF selection.pc = "gather" THEN 1..Len(selection.platform_results) ELSE {}

ConfigOf(m) == Get(platform_profiles, selection.platforms[m], << >>)

\* record n is scored for task m without an exception
Scorable(n, m) == ~content_match_raises(selection.hotspots[n], ConfigOf(m))

\* what _score_item gave for record n in task m
ScoreOf(n, m) ==
    score_item(selection.hotspots[n], DEFAULT_CONFIG, ConfigOf(m), selection.now,
               selection.cache)

InUnit(x) == 0 <= x /\ x <= One

\* C13: for every record and every channel profile, whatever the record's
\* heat value and whatever weights the profile configures, the total that
\* _score_item returns and every component of its breakdown lie in [0, 1].
C13_ScoresInUnitInterval ==
    \A m \in Analysed : \A n \in 1..Len(selection.hotspots) :
        Scorable(n, m) =>
            /\ InUnit(ScoreOf(n, m).score)
            /\ \A c \in DOMAIN ScoreOf(n, m).breakdown : InUnit(ScoreOf(n, m).breakdown[c])

\* a profile whose weights sum to more than 1 scored a record of infinite
\* heat, and a profile with a negative weight scored a record without heat
C13_Witness ==
    /\ \E m \in Analysed : \E n \in 1..Len(selection.hotspots) :
          /\ selection.platforms[m] = "douyin"
          /\ selection.hotspots[n].hot.kind = "inf"
          /\ ScoreOf(n, m).score = One
    /\ \E m \in Analysed : \E n \in 1..Len(selection.hotspots) :
          /\ selection.platforms[m] = "douyin"
          /\ selection.hotspots[n].hot.kind = "absent"
          /\ ScoreOf(n, m).score = 0

\* the positions of the input list that hold the record of this id
PositionsOf(id) ==
    {n \in 1..Len(selection.hotspots) : Field(selection.hotspots[n], "id") = id}

\* the total _score_item gave in task m to the record of a result entry
TotalOf(entry, m) == ScoreOf(CHOOSE n \in PositionsOf(entry.hotspot_id) : TRUE, m).score

InInputOrder(a, b) ==
    \E i \in PositionsOf(a.hotspot_id), j \in PositionsOf(b.hotspot_id) : i < j

\* C14: each channel's ranked list is ordered by non-increasing total, and
\* records whose totals are exactly equal keep their relative input order.
C14_SortedByTotal ==
    \A m \in Analysed :
        LET list == selection.platform_results[m]
        IN  \A i, j \in 1..Len(list) :
                i < j =>
                    /\ TotalOf(list[i], m) >= TotalOf(list[j], m)
                    /\ (TotalOf(list[i], m) = TotalOf(list[j], m)
                        /\ list[i].hotspot_id # list[j].hotspot_id)
                            => InInputOrder(list[i], list[j])

\* the records of the input list that clear the threshold in task m
Clearing(m) ==
    {n \in 1..Len(selection.hotspots) :
        ScoreOf(n, m).score >= DEFAULT_CONFIG.threshold_score}

\* C15: a record appears in a channel's ranked list if and only if its total
\* is at least the threshold (0.1), and every such (record, channel) pair
\* yields exactly one result.
C15_ThresholdFilter ==
    \A m \in Analysed :
        LET list == selection.platform_results[m]
        IN  /\ Len(list) = Cardinality(Clearing(m))
            /\ \A n \in 1..Len(selection.hotspots) :
                  LET id == Field(selection.hotspots[n], "id")
                  IN  Cardinality({k \in 1..Len(list) : list[k].hotspot_id = id})
                        = Cardinality(PositionsOf(id) \cap Clearing(m))

\* one record of the request was dropped and another one kept
C15_Witness ==
    \E m \in Analysed :
        /\ Clearing(m) # {}
        /\ Clearing(m) # 1..Len(selection.hotspots)
        /\ Len(selection.platform_results[m]) = Cardinality(Clearing(m))

\* the invocations that returned a result
ReturnedRuns ==
    IF selection.pc = "none" THEN {}
    ELSE {k \in 1..Len(selection.history) : selection.history[k].kind = "returned"}

SelectionsOf(k) == selection.history[k].result.selections

\* C16: two invocations of analyze_hotspots with the same records and the
\* same channel list return the same ranked lists, whenever each of them
\* runs and whatever was called before.
C16_Deterministic ==
    \A j, k \in ReturnedRuns : SelectionsOf(j) = SelectionsOf(k)

\* C16, amended: two invocations with the same records and the same channel
\* list that run at the same clock reading end alike, whatever was called
\* before: both raise, or both return the same ranked lists.
C16_DeterministicAtOneTime ==
    selection.pc # "none" =>
        \A j, k \in 1..Len(selection.history) :
            selection.history[j].at = selection.history[k].at
                => /\ selection.history[j].kind = selection.history[k].kind
                   /\ j \in ReturnedRuns => SelectionsOf(j) = SelectionsOf(k)

\* the second of two invocations at one clock reading found the titles of
\* the first in the cache and ranked a record with a scored title
C16_Witness ==
    /\ selection.pc = "idle"
    /\ ReturnedRuns = {1, 2}
    /\ selection.history[1].at = selection.history[2].at
    /\ \E p \in DOMAIN SelectionsOf(2) : \E n \in 1..Len(SelectionsOf(2)[p]) :
          SelectionsOf(2)[p][n].detailed_scores.title > 0

\* C17: a requested channel without a configured profile gets no ranked
\* list, raises no error and leaves the lists of the other channels.
C17_UnknownChannelIgnored ==
    \A k \in ReturnedRuns :
        \A p \in DOMAIN SelectionsOf(k) : p \in DOMAIN platform_profiles

\* the channels of run k that have a profile
ConfiguredOf(k) ==
    {p \in DOMAIN platform_profiles :
        \E n \in 1..Len(selection.history[k].result.selection_criteria.platforms_analyzed) :
            selection.history[k].result.selection_criteria.platforms_analyzed[n] = p}

\* some record cleared the threshold for channel p when run k scored it
SomeClears(k, p) ==
    \E n \in 1..Len(selection.hotspots) :
        score_item(selection.hotspots[n], DEFAULT_CONFIG, platform_profiles[p],
                   selection.history[k].at, << >>).score
            >= DEFAULT_CONFIG.threshold_score

\* the metadata of run k: the number of records and the channels analysed
MetadataRight(k) ==
    LET criteria == selection.history[k].result.selection_criteria
    IN  /\ criteria.total_hotspots_analyzed = Len(selection.hotspots)
        /\ criteria.platforms_analyzed =
              IF selection.request.kind = "null" \/ selection.request.l = << >>
              THEN ProfileOrder ELSE selection.request.l

\* C18: the result holds one ranked list for every requested configured
\* channel, also for one no record clears the threshold of, and the metadata
\* report the number of records and the channels analysed.
C18_OneListPerChannel ==
    \A k \in ReturnedRuns :
        /\ \A p \in ConfiguredOf(k) : p \in DOMAIN SelectionsOf(k)
        /\ MetadataRight(k)

\* C18, amended: the result holds one ranked list for every requested
\* configured channel that at least one record clears the threshold of and
\* none for a requested configured channel without such a record, and the
\* metadata report the number of records and the channels analysed.
C18_OneListPerNonEmptyChannel ==
    \A k \in ReturnedRuns :
        /\ \A p \in ConfiguredOf(k) :
              /\ p \in DOMAIN SelectionsOf(k) <=> SomeClears(k, p)
              /\ p \in DOMAIN SelectionsOf(k) => SelectionsOf(k)[p] # << >>
        /\ MetadataRight(k)

\* of two configured channels of one request, one got a list and one none
C18_Witness ==
    \E k \in ReturnedRuns : \E p, q \in ConfiguredOf(k) :
        /\ p \in DOMAIN SelectionsOf(k)
        /\ q \notin DOMAIN SelectionsOf(k)
        /\ ~SomeClears(k, q)

\* C19: whatever records (fields missing or null) and channels it is given,
\* analyze_hotspots returns a result and lets no exception out.
C19_NoExceptionEscapes ==
    selection.pc # "none" =>
        \A k \in 1..Len(selection.history) : selection.history[k].kind # "raised"

\* collected_at is missing (absent, null or empty), of an unsupported type,
\* or a string that is no timestamp
NoUsableTime(item) ==
    LET collected_at == Field(item, "collected_at")
    IN  \/ Falsy(collected_at)
        \/ collected_at.kind \notin {"str", "datetime"}
        \/ collected_at.kind = "str" /\ ~IsIso(collected_at.s)

\* C20: the recency component is exactly 0.5 when collected_at is missing,
\* of an unsupported type or unparsable.
C20_NeutralRecency ==
    \A m \in Analysed : \A n \in 1..Len(selection.hotspots) :
        NoUsableTime(selection.hotspots[n])
            => ScoreOf(n, m).breakdown.recency = One \div 2

\* a ranked list holds a record with an unparsable collected_at and one with
\* a number for it, both with recency 0.5
C20_Witness ==
    \E m \in Analysed :
        LET list == selection.platform_results[m]
        IN  \E i, j \in 1..Len(list) :
                /\ list[i].hotspot_id = Num(8)
                /\ list[j].hotspot_id = Num(9)
                /\ list[i].detailed_scores.recency = One \div 2
                /\ list[j].detailed_scores.recency = One \div 2

\* the heat value _score_item hands to _log1p_norm_hot for record n
HotOf(n) ==
    IF selection.hotspots[n].hot.kind = "absent" THEN Num(0) ELSE selection.hotspots[n].hot

\* C21: a heat value that is missing, fails numeric parsing or is negative
\* raises nothing and gives the hotness component exactly 0.
C21_NoHeatIsZero ==
    \A m \in Analysed : \A n \in 1..Len(selection.hotspots) :
        (\/ selection.hotspots[n].hot.kind \in {"absent", "null"}
         \/ float(HotOf(n)).kind = "raised"
         \/ float(HotOf(n)).kind = "num" /\ float(HotOf(n)).n < 0)
            => (Scorable(n, m) => ScoreOf(n, m).breakdown.hot = 0)

\* one request held a record with a textual heat value and one with a
\* negative one, and both reached a ranked list with hotness 0
C21_Witness ==
    \E m \in Analysed :
        LET list == selection.platform_results[m]
        IN  \E i, j \in 1..Len(list) :
                /\ list[i].hotspot_id = Num(4)
                /\ list[j].hotspot_id = Num(8)
                /\ list[i].detailed_scores.hot = 0
                /\ list[j].detailed_scores.hot = 0

\* the weights a profile with scoring_weights gives the five components
ProfileWeights(platform_config) ==
    LET pw == platform_config["scoring_weights"]
        w == DEFAULT_CONFIG.weights
    IN  [hot |-> Get(pw, "hot", w.hot), recency |-> Get(pw, "recency", w.recency),
         title |-> Get(pw, "title", w.title),
         content_match |-> Get(pw, "content_match", 3000),
         platform |-> Get(pw, "platform", w.platform)]

HasWeights(platform_config) ==
    Truthful(platform_config) /\ "scoring_weights" \in DOMAIN platform_config

\* the weighted sum of the components of a breakdown, clamped to [0, 1]
RECURSIVE WeightedSum(_, _, _)
WeightedSum(breakdown, weights, keys) ==
    IF keys = {} THEN 0
    ELSE LET c == CHOOSE k \in keys : TRUE
         IN  breakdown[c] * weights[c] + WeightedSum(breakdown, weights, keys \ {c})

ClampedSum(breakdown, weights) ==
    Max(0, Min(One, DivRound(WeightedSum(breakdown, weights, DOMAIN breakdown), One)))

FiveComponents == {"hot", "recency", "title", "content_match", "platform"}

\* C22: the total of a (record, channel) pair is the clamped weighted sum of
\* the five components, with the profile's weights when it has some and the
\* default weights otherwise, and the breakdown holds all five components.
C22_FiveComponentSum ==
    \A m \in Analysed : \A n \in 1..Len(selection.hotspots) :
        Scorable(n, m) =>
            /\ DOMAIN ScoreOf(n, m).breakdown = FiveComponents
            /\ ScoreOf(n, m).score =
                  ClampedSum(ScoreOf(n, m).breakdown,
                             IF HasWeights(ConfigOf(m)) THEN ProfileWeights(ConfigOf(m))
                             ELSE DEFAULT_CONFIG.weights)

\* C22, amended: for a profile with scoring weights the total is the clamped
\* weighted sum of the five components, each weight taken from the profile
\* or, where the profile names none, from the defaults (0.3 for
\* content_match), and the breakdown holds all five; for any other channel
\* the total is the clamped sum of hotness, recency, title appeal and
\* channel weight under the default weights and the breakdown holds these
\* four, without content_match.
C22_WeightedSumOfBreakdown ==
    \A m \in Analysed : \A n \in 1..Len(selection.hotspots) :
        Scorable(n, m) =>
            IF HasWeights(ConfigOf(m))
            THEN /\ DOMAIN ScoreOf(n, m).breakdown = FiveComponents
                 /\ ScoreOf(n, m).score =
                       ClampedSum(ScoreOf(n, m).breakdown, ProfileWeights(ConfigOf(m)))
            ELSE /\ DOMAIN ScoreOf(n, m).breakdown = FiveComponents \ {"content_match"}
                 /\ ScoreOf(n, m).score =
                       ClampedSum(ScoreOf(n, m).breakdown, DEFAULT_CONFIG.weights)

\* one request scored a record for a profile with weights of its own, a
\* missing one filled from the defaults, and for a profile without weights
C22_Witness ==
    \E m, k \in Analysed : \E n \in 1..Len(selection.hotspots) :
        /\ selection.platforms[m] = "xiaohongshu"
        /\ selection.platforms[k] = "zhihu"
        /\ Scorable(n, m) /\ Scorable(n, k)
        /\ ScoreOf(n, m).score # ScoreOf(n, k).score
        /\ ScoreOf(n, m).breakdown.content_match = One

\* record n has a numeric heat value
Numeric(n) == float(HotOf(n)).kind \in {"num", "inf"}

\* the heat value of record a is at most that of record b
HeatAtMost(a, b) ==
    \/ float(HotOf(b)).kind = "inf"
    \/ /\ float(HotOf(a)).kind = "num"
       /\ float(HotOf(b)).kind = "num"
       /\ float(HotOf(a)).n <= float(HotOf(b)).n

\* C23: hotness is monotone: of two heat values a <= b the first scores at
\* most what the second scores, a value of 0 or less scores 0 and no value
\* scores more than 1.
C23_HotnessMonotone ==
    \A m \in Analysed : \A a, b \in 1..Len(selection.hotspots) :
        (Scorable(a, m) /\ Scorable(b, m) /\ Numeric(a) /\ Numeric(b)) =>
            /\ HeatAtMost(a, b)
                  => ScoreOf(a, m).breakdown.hot <= ScoreOf(b, m).breakdown.hot
            /\ (float(HotOf(a)).kind = "num" /\ float(HotOf(a)).n <= 0)
                  => ScoreOf(a, m).breakdown.hot = 0
            /\ ScoreOf(a, m).breakdown.hot <= One

\* two records of one request with heat 100 and 2,000,000,000: the first
\* scored strictly less and the second hit the cap
C23_Witness ==
    \E m \in Analysed : \E a, b \in 1..Len(selection.hotspots) :
        /\ HotOf(a) = Num(100)
        /\ HotOf(b) = Num(2000000000)
        /\ 0 < ScoreOf(a, m).breakdown.hot
        /\ ScoreOf(a, m).breakdown.hot < ScoreOf(b, m).breakdown.hot
        /\ ScoreOf(b, m).breakdown.hot = One

\* ------------------------------------------------ claims: collection
\* C24: in the result of one collection run no two records share the pair
\* (title, url).
C24_UniqueTitleUrl ==
    flow.pc = "returned" =>
        \A e \in 1..Len(flow.results) :
            \A i, j \in 1..Len(flow.results[e].news) :
                i # j =>
                    <<flow.results[e].news[i].title, flow.results[e].news[i].url>>
                        # <<flow.results[e].news[j].title, flow.results[e].news[j].url>>

\* the steps of a job that have finished: acquire() returned, the adapter
\* was constructed, site.collect ended, cleanup() was called and ended
Acquired(j) == j.slot
Constructed(j) == j.site # "None"
Fetched(j) == j.fetch \in {"returned", "raised"}
Releasing(j) == j.cleanups > 0
Released(j) == j.cleanups > 0 /\ j.pc = "done"

\* the steps of a job come in their order
StepsInOrder(j) ==
    /\ Constructed(j) => Acquired(j)
    /\ j.fetch # "no" => Constructed(j)
    /\ Releasing(j) => Fetched(j)
    /\ (j.pc = "done" /\ Constructed(j)) => Released(j) /\ j.cleanups = 1

\* once release has begun the earlier steps are over
ReleaseIsLast(c) ==
    \A k \in JobsOf(c) :
        Releasing(Job(c, k)) =>
            /\ tasks'[c][k].slot = Job(c, k).slot
            /\ tasks'[c][k].site = Job(c, k).site
            /\ tasks'[c][k].fetch = Job(c, k).fetch
            /\ tasks'[c][k].cleanups = Job(c, k).cleanups

\* C25: in every source job acquire, construction, the pre hook, fetch, the
\* post hook and release come in this order, each after the one before it
\* ended, and release is the last step wherever an adapter was constructed,
\* also when fetch raised.  (The hooks pass through without suspending: the
\* pre hook is part of the step that starts fetch, the post hook of the step
\* in which fetch returns.)
C25_JobStepOrder ==
    /\ [](\A c \in Calls : \A k \in JobsOf(c) : StepsInOrder(Job(c, k)))
    /\ [][\A c \in Calls : ReleaseIsLast(c)]_vars

\* one call ran a job whose fetch raised and a job whose fetch returned, and
\* both were released at their end
C25_Witness ==
    \E c \in Calls : \E k, l \in JobsOf(c) :
        /\ Job(c, k).fetch = "raised" /\ Released(Job(c, k))
        /\ Job(c, l).fetch = "returned" /\ Released(Job(c, l))

\* the acquire() calls on the limiter of source s that have returned
AcquiresReturned(s) ==
    {p \in UNION {{<<c, k>> : k \in JobsOf(c)} : c \in Calls} :
        Job(p[1], p[2]).site_code = s /\ Job(p[1], p[2]).slot}

\* C26: a slot granted by acquire() is never given back: the free slots of a
\* limiter only decrease, and over the life of the engine at most max_calls
\* acquire() calls on it return.
C26_SlotsNeverReturned ==
    /\ [](\A s \in DOMAIN semaphore : Cardinality(AcquiresReturned(s)) <= max_calls(s))
    /\ [][\A s \in DOMAIN semaphore : semaphore'[s] <= semaphore[s]]_vars

\* all slots of a limiter were granted and their jobs have ended
C26_Witness ==
    \E s \in DOMAIN semaphore :
        /\ semaphore[s] = 0
        /\ Cardinality(AcquiresReturned(s)) = max_calls(s)
        /\ \A p \in AcquiresReturned(s) : Finished(Job(p[1], p[2]))
        /\ \A c \in Calls : pc[c] = "returned"

\* C27: the requested source codes are a set: a code listed twice in one
\* collect() request gives one job, one acquire and at most one entry.
C27_RequestIsASet ==
    \A c \in Calls : \A s \in ConfiguredSites :
        /\ Cardinality({k \in JobsOf(c) : Job(c, k).site_code = s}) <= 1
        /\ Returned(c) => Cardinality(EntriesOf(c, s)) <= 1

\* ====================================================== FeishuService
\* One service instance and one bitable table (one app_token, table_id).
\* A field of the table is a name with the field_id the server gave it.

\* the names the table can hold: two of REQUIRED_FIELDS, one name outside
\* it and one system field
FieldNames == {"title", "url", "legacy", "_id"}

\* field_rules.REQUIRED_FIELDS, cut down to two of its names
REQUIRED_FIELDS == {"title", "url"}

system_fields == {"_id", "_creator", "_createTime", "_lastModifier",
                  "_lastModifiedTime", "parentRecordIds"}

\* the required_fields a caller passes; None stands for REQUIRED_FIELDS
RequiredChoices == {REQUIRED_FIELDS, {"title"}}

\* the tables the service may find when it is constructed
FirstTables ==
    {{[name |-> n, id |-> 0] : n \in ns \cup {"_id"}} : ns \in SUBSET {"title", "legacy"}}

NamesOf(fields) == {f.name : f \in fields}

\* get_tenant_access_token: the cached token while it has not expired,
\* else a new one from the token endpoint
get_tenant_access_token(f) == IF f.expired THEN f.token + 1 ELSE f.token

\* _get_table_fields_sync behind lru_cache: the list request is made only
\* for a key (self, app_token, table_id, token) that was not seen before
get_table_fields(f, token) ==
    IF token \in DOMAIN f.cache THEN f.cache[token] ELSE f.table

CacheWith(f, token) ==
    [t \in DOMAIN f.cache \cup {token} |->
        IF t \in DOMAIN f.cache THEN f.cache[t] ELSE f.table]

CallRecord(f) ==
    [required |-> f.required, token |-> f.token, requests |-> f.requests,
     failed |-> f.failed, table |-> f.table]

FeishuInit ==
    /\ CollectionInit
    /\ flow = FlowIdle
    /\ base_site = NoSites
    /\ selection = NoSelection
    /\ limiter = NoLimiter
    /\ \E table \in FirstTables :
          feishu = [pc |-> "idle", table |-> table, next_id |-> 1,
                    token |-> 1, expired |-> FALSE, expiries |-> 0,
                    cache |-> << >>,
                    required |-> {}, online_fields |-> {},
                    to_delete |-> {}, to_add |-> {},
                    requests |-> << >>, failed |-> 0, history |-> << >>]

\* time passes beyond _token_expires_at
TokenExpire ==
    /\ feishu.pc = "idle"
    /\ ~feishu.expired
    /\ feishu.expiries < MaxExpiries
    /\ feishu' = [feishu EXCEPT !.expired = TRUE, !.expiries = @ + 1]
    /\ UNCHANGED <<cvars, flow, base_site, selection, limiter>>

\* ensure_table_fields up to the two loops
EnsureCall(required) ==
    /\ feishu.pc = "idle"
    /\ Len(feishu.history) < MaxEnsures
    /\ LET token == get_tenant_access_token(feishu)
           online_fields == get_table_fields(feishu, token)
           online_field_names == NamesOf(online_fields) \ system_fields
           fields_to_delete == online_field_names \ required
           fields_to_add == required \ online_field_names
           called == [feishu EXCEPT !.token = token, !.expired = FALSE,
                                    !.cache = CacheWith(feishu, token),
                                    !.required = required,
                                    !.online_fields = online_fields,
                                    !.to_delete = fields_to_delete,
                                    !.to_add = fields_to_add,
                                    !.requests = << >>, !.failed = 0]
       IN  IF fields_to_delete = {} /\ fields_to_add = {}
           THEN feishu' = [called EXCEPT !.history = Append(@, CallRecord(called))]
           ELSE feishu' = [called EXCEPT !.pc = "sync"]
    /\ UNCHANGED <<cvars, flow, base_site, selection, limiter>>

\* the list request fails: the exception is caught and (False, msg) returned
EnsureListRaise(required) ==
    /\ feishu.pc = "idle"
    /\ Len(feishu.history) < MaxEnsures
    /\ LET token == get_tenant_access_token(feishu)
           called == [feishu EXCEPT !.token = token, !.expired = FALSE,
                                    !.required = required,
                                    !.online_fields = {},
                                    !.to_delete = {}, !.to_add = {},
                                    !.requests = << >>, !.failed = 1]
       IN  /\ token \notin DOMAIN feishu.cache
           /\ feishu' = [called EXCEPT !.history = Append(@, CallRecord(called))]
    /\ UNCHANGED <<cvars, flow, base_site, selection, limiter>>

\* one turn of the deletion loop: delete_field with the listed field_id
DeleteField(field_name, accepted) ==
    /\ feishu.pc = "sync"
    /\ field_name \in feishu.to_delete
    /\ LET field_info == CHOOSE f \in feishu.online_fields : f.name = field_name
           success == accepted /\ field_info \in feishu.table
       IN  feishu' = [feishu EXCEPT
                !.table = IF success THEN @ \ {field_info} ELSE @,
                !.to_delete = @ \ {field_name},
                !.requests = Append(@, [op |-> "delete", field_name |-> field_name]),
                !.failed = IF success THEN @ ELSE @ + 1]
    /\ UNCHANGED <<cvars, flow, base_site, selection, limiter>>

\* one turn of the creation loop: create_field
CreateField(field_name, accepted) ==
    /\ feishu.pc = "sync"
    /\ feishu.to_delete = {}
    /\ field_name \in feishu.to_add
    /\ LET success == accepted /\ field_name \notin NamesOf(feishu.table)
       IN  feishu' = [feishu EXCEPT
                !.table = IF success
                          THEN @ \cup {[name |-> field_name, id |-> feishu.next_id]}
                          ELSE @,
                !.next_id = IF success THEN @ + 1 ELSE @,
                !.to_add = @ \ {field_name},
                !.requests = Append(@, [op |-> "create", field_name |-> field_name]),
                !.failed = IF success THEN @ ELSE @ + 1]
    /\ UNCHANGED <<cvars, flow, base_site, selection, limiter>>

\* both loops are over: (True, message) is returned
EnsureReturn ==
    /\ feishu.pc = "sync"
    /\ feishu.to_delete = {}
    /\ feishu.to_add = {}
    /\ feishu' = [feishu EXCEPT !.pc = "idle",
                                !.history = Append(@, CallRecord(feishu))]
    /\ UNCHANGED <<cvars, flow, base_site, selection, limiter>>

FeishuNext ==
    \/ TokenExpire
    \/ \E required \in RequiredChoices : EnsureCall(required)
    \/ \E required \in RequiredChoices : EnsureListRaise(required)
    \/ \E field_name \in FieldNames, accepted \in BOOLEAN : DeleteField(field_name, accepted)
    \/ \E field_name \in FieldNames, accepted \in BOOLEAN : CreateField(field_name, accepted)
    \/ EnsureReturn

FeishuSpec == FeishuInit /\ [][FeishuNext]_vars


\* ================================================ RateLimitMiddleware
\* Two applications, each with its own middleware, are sent the same
\* paths at the same times; only the client addresses may differ.  Times
\* are whole seconds, token counts are in units of 1/One token.
Apps == {1, 2}

\* settings.RATE_LIMIT_PER_MINUTE
RATE_LIMIT_PER_MINUTE == 60

\* request.client: None, or an address
Clients == {Null, [host |-> "10.0.0.1"]}

\* request.url.path, as its separators and segments
Paths == {<<"/", "api", "/", "collection", "/", "run">>,
          <<"/", "api", "/", "publication", "/", "publish">>,
          <<"/", "api", "/", "collection", "/", "publication">>,
          <<"/", "health">>}

\* the seconds between two arrivals
Gaps == {0, 6, 60, 66}

NewRule(max_requests, window, time) ==
    [max_requests |-> max_requests, window |-> window,
     tokens |-> max_requests * One, last_refill |-> time]

setup_rate_limits(time) ==
    [global      |-> NewRule(RATE_LIMIT_PER_MINUTE, 60, time),
     collection  |-> NewRule(10, 60, time),
     publication |-> NewRule(5, 60, time)]

get_rate_limit_rule(path) ==
    IF Contains(path, <<"/", "collection">>) THEN "collection"
    ELSE IF Contains(path, <<"/", "publication">>) THEN "publication"
    ELSE "global"

\* the refill step of _check_rate_limit without its cap
refill_uncapped(rule, current_time) ==
    LET time_passed == current_time - rule.last_refill
    IN  IF time_passed > rule.window
        THEN [rule EXCEPT !.tokens = rule.max_requests * One,
                          !.last_refill = current_time]
        ELSE LET tokens_to_add == (time_passed * rule.max_requests * One) \div rule.window
             IN  [rule EXCEPT !.tokens = @ + tokens_to_add,
                              !.last_refill = current_time]

\* the refill step of _check_rate_limit
refill(rule, current_time) ==
    LET time_passed == current_time - rule.last_refill
    IN  IF time_passed > rule.window
        THEN [rule EXCEPT !.tokens = rule.max_requests * One,
                          !.last_refill = current_time]
        ELSE LET tokens_to_add == (time_passed * rule.max_requests * One) \div rule.window
             IN  [rule EXCEPT !.tokens = Min(rule.max_requests * One, @ + tokens_to_add),
                              !.last_refill = current_time]

\* _check_rate_limit turning away every client without an address
check_rate_limit_known_clients(rate_limits, rule_key, client_ip, current_time) ==
    LET rule == refill(rate_limits[rule_key], current_time)
    IN  IF rule.tokens >= One /\ client_ip # "unknown"
        THEN [allowed |-> TRUE, refilled |-> rule.tokens,
              rate_limits |-> [rate_limits EXCEPT ![rule_key] = [rule EXCEPT !.tokens = @ - One]]]
        ELSE [allowed |-> FALSE, refilled |-> rule.tokens,
              rate_limits |-> [rate_limits EXCEPT ![rule_key] = rule]]

\* _check_rate_limit: the decision, the token count it was taken on and
\* the rules afterwards
check_rate_limit(rate_limits, rule_key, client_ip, current_time) ==
    LET rule == refill(rate_limits[rule_key], current_time)
    IN  IF rule.tokens >= One
        THEN [allowed |-> TRUE, refilled |-> rule.tokens,
              rate_limits |-> [rate_limits EXCEPT ![rule_key] = [rule EXCEPT !.tokens = @ - One]]]
        ELSE [allowed |-> FALSE, refilled |-> rule.tokens,
              rate_limits |-> [rate_limits EXCEPT ![rule_key] = rule]]

\* dispatch: 429 when the rule has no token, else the response of call_next
dispatch(rate_limits, path, client, current_time) ==
    LET client_ip == IF client # Null THEN client.host ELSE "unknown"
        rule_key == get_rate_limit_rule(path)
        checked == check_rate_limit(rate_limits, rule_key, client_ip, current_time)
    IN  [rule_key |-> rule_key, client_ip |-> client_ip,
         refilled |-> checked.refilled,
         status_code |-> IF ~checked.allowed THEN 429 ELSE 200,
         rate_limits |-> checked.rate_limits]

LimitInit ==
    /\ CollectionInit
    /\ flow = FlowIdle
    /\ base_site = NoSites
    /\ selection = NoSelection
    /\ feishu = NoFeishu
    /\ limiter = [pc |-> "serving", now |-> 0, requests |-> 0, others |-> 0,
                  rate_limits |-> [a \in Apps |-> setup_rate_limits(0)],
                  last |-> [a \in Apps |-> Null]]

\* one request reaches both applications, gap seconds after the last one
Dispatch(path, clients, gap) ==
    /\ limiter.pc = "serving"
    /\ limiter.requests < MaxRequests
    /\ get_rate_limit_rule(path) # "publication" => limiter.others < MaxOtherRequests
    /\ LET current_time == limiter.now + gap
           served == [a \in Apps |->
                        dispatch(limiter.rate_limits[a], path, clients[a], current_time)]
       IN  limiter' = [limiter EXCEPT
                !.now = current_time,
                !.requests = @ + 1,
                !.others = IF get_rate_limit_rule(path) # "publication" THEN @ + 1 ELSE @,
                !.rate_limits = [a \in Apps |-> served[a].rate_limits],
                !.last = [a \in Apps |->
                            [rule_key |-> served[a].rule_key,
                             client_ip |-> served[a].client_ip,
                             refilled |-> served[a].refilled,
                             status_code |-> served[a].status_code]]]
    /\ UNCHANGED <<cvars, flow, base_site, selection, feishu>>

LimitNext ==
    \E path \in Paths, clients \in [Apps -> Clients], gap \in Gaps :
        Dispatch(path, clients, gap)

LimitSpec == LimitInit /\ [][LimitNext]_vars

\* ---------------------------------------------------- claims: feishu
\* C28: ensure_table_fields is idempotent: after a call in which every
\* deletion and creation succeeded the table's non-system fields are the
\* required ones, and the call that follows at once on the same service
\* with the same arguments issues no create and no delete request.
C28_EnsureIdempotent ==
    \A i \in 1..Len(feishu.history) :
        LET first == feishu.history[i]
        IN  first.failed = 0 =>
              /\ NamesOf(first.table) \ system_fields = first.required
              /\ i < Len(feishu.history) =>
                    LET second == feishu.history[i + 1]
                    IN  (second.required = first.required /\ second.token = first.token)
                            => second.requests = << >>


\* ------------------------------------------------ claims: rate limiter
RuleKeys == {"global", "collection", "publication"}

TokensInRange ==
    \A a \in Apps, k \in RuleKeys :
        LET rule == limiter.rate_limits[a][k]
        IN  0 <= rule.tokens /\ rule.tokens <= rule.max_requests * One

\* C29: at non-decreasing arrival times every rule's token count stays in
\* [0, max_requests]; a request gets 429 exactly when the rule holds fewer
\* than one token after the refill step, and an admitted request takes
\* exactly one token.
C29_TokenBucket ==
    /\ TokensInRange
    /\ limiter.requests > 0 =>
          \A a \in Apps :
              LET last == limiter.last[a]
                  rule == limiter.rate_limits[a][last.rule_key]
              IN  /\ last.status_code = 429 <=> last.refilled < One
                  /\ last.status_code # 429 => rule.tokens = last.refilled - One

\* a request was turned away while its rule held half a token
C29_Witness ==
    /\ limiter.requests > 0
    /\ \E a \in Apps :
          /\ limiter.last[a].status_code = 429
          /\ 0 < limiter.last[a].refilled
          /\ limiter.last[a].refilled < One

\* C30: one bucket per rule is shared by all clients: two request
\* sequences that differ only in the client addresses get the same
\* decisions, and the rules end in the same state.
C30_ClientBlind ==
    limiter.requests > 0 =>
        \A a, b \in Apps :
            /\ limiter.last[a].status_code = limiter.last[b].status_code
            /\ limiter.rate_limits[a] = limiter.rate_limits[b]

\* the two sequences differed in the client address of a request that
\* was turned away
C30_Witness ==
    /\ limiter.requests > 0
    /\ \E a, b \in Apps :
          /\ limiter.last[a].client_ip # limiter.last[b].client_ip
          /\ limiter.last[a].status_code = 429
          /\ limiter.last[b].status_code = 429

====
